---- MODULE Spec2Model ----
(***************************************************************************)
(* The animated keyboard preview of the Acer Predator RGB GUI:             *)
(* KeyboardPreviewWidget and KeyWidget of                                  *)
(* acer-predator-gui/src/gui/components/keyboard_preview.py.               *)
(*                                                                         *)
(* The widget is single-threaded: every public method runs to completion   *)
(* on the Qt event loop, so each method is one atomic action.  The state   *)
(* is the widget's fields, the QTimer (armed or not, and its interval) and *)
(* the 36 KeyWidgets with the colour and brightness last handed to each.   *)
(* Methods are written as operators from a widget record to a widget       *)
(* record, composed in the order the code calls them; an action commits    *)
(* the record its handler returns.                                         *)
(*                                                                         *)
(* Python floats: int(x * factor) with factor a value of math.sin is       *)
(* modelled in fixed point.  Each table holds floor(factor * scale) of the *)
(* IEEE double the code computes, for frames 0..99; for every brightness   *)
(* in 0..100 and every channel in 0..255 the fixed-point product, floored, *)
(* equals the int() of the double product; the few places where the       *)
(* double arithmetic rounds one short of the exact value are listed.       *)
(*                                                                         *)
(* Around the preview: the control panels (control_panels.py), the main    *)
(* window with its tray icon (main_window.py, main.py), the Save Profile   *)
(* dialog (profile_manager.py) and the web handler's GET requests and      *)
(* POST /api/set_mode (web_gui.py), each a record variable.  Qt delivers   *)
(* a signal by calling its slots before emit, setValue or setChecked       *)
(* returns, so a handler and the slots it triggers are one operator.       *)
(* Spec, SpecStray and SpecRender drive the preview alone; SpecWindow      *)
(* drives the whole main window; SpecControls the control panels;          *)
(* SpecProfiles the Save Profile dialog; SpecWeb the web handler.          *)
(***************************************************************************)
EXTENDS Integers, Sequences, FiniteSets, TLC

VARIABLES
  animation_frame,    \* self.animation_frame
  current_mode,       \* self.current_mode
  current_brightness, \* self.current_brightness
  current_speed,      \* self.current_speed
  current_direction,  \* self.current_direction
  zone_colors,        \* self.zone_colors, zone z at index z (1..4)
  timer_active,       \* self.animation_timer.isActive()
  timer_interval,     \* self.animation_timer.interval(), in ms
  keys,               \* self.keys: per key, what set_color was last given and what it shows
  stray_ticks,        \* history: update_animation calls made while the timer was not armed
  panel,              \* the ControlPanelsWidget and its sub-controls
  window,             \* the MainWindow: tray, visibility, the last close event
  web,                \* the RGBWebHandler: last request body, controller call, response
  profile_manager     \* the ProfileManagerWidget: last dialog, signals emitted, profile files

vars == <<animation_frame, current_mode, current_brightness, current_speed,
          current_direction, zone_colors, timer_active, timer_interval, keys,
          stray_ticks, panel, window, web, profile_manager>>

(***************************************************************************)
(* Bounds of the model and the inputs the actions draw from.               *)
(***************************************************************************)
\* Ticks explored from construction under Spec and SpecStray.
MaxFrame == 2
\* Largest starting frame of SpecRender.
MaxRenderFrame == 31
\* update_animation calls delivered to a stopped timer under SpecStray.
MaxStray == 2
\* Longest name typed into the Save Profile dialog.
MaxNameLen == 3

AcerGreen == <<50, 255, 50>>
Black == <<0, 0, 0>>
White == <<255, 255, 255>>
BrandGreen == <<131, 184, 26>>
Amber == <<200, 100, 29>>

ModeArgs == 0 .. 5
SpeedArgs == {1, 5, 9}
\* The speeds the speed slider offers.
SpeedRange == 1 .. 9
DirectionArgs == {1, 2}
ZoneArgs == {0, 1, 4, 5}
BrightnessArgs == {0, 50, 100}
ColorArgs == {AcerGreen, Black}
AllBrightness == 0 .. 100
RenderColors ==
  { <<AcerGreen, AcerGreen, AcerGreen, AcerGreen>>,
    <<BrandGreen, BrandGreen, BrandGreen, BrandGreen>>,
    <<White, Black, BrandGreen, Amber>> }
\* What the user picks on the main window's controls.
ControlBrightnessArgs == {0, 50}
ControlSpeedArgs == {1, 9}
ZoneButtons == {1, 4}
\* The controller's state after a profile was loaded.
\* Values the brightness slider is moved to and the spinbox is edited to
\* (both have the range 0..100), the four quick-brightness buttons, and the
\* values set_brightness is called with.
SliderArgs == {0, 1, 50, 100}
SpinboxArgs == {0, 99}
QuickBrightness == {25, 50, 75, 100}
SetBrightnessArgs == {0, 30, 100}

\* States given to ControlPanelsWidget.update_from_state: complete, without
\* a mode, with a mode that has no button, and with a direction other than
\* 1 and 2.
PanelStateArgs ==
  { [mode |-> 0, brightness |-> 50, speed |-> 9, direction |-> 2, zone |-> 2],
    [brightness |-> 0, speed |-> 1],
    [mode |-> 7, brightness |-> 100],
    [mode |-> 4, direction |-> 3] }

\* Request paths of GET requests, as lists of segments.
GetPaths ==
  { <<>>, <<"api", "status">>, <<"api", "modes">>, <<"api", "profiles">>,
    <<"api", "set_mode">>, <<"api", "">>, <<"api">>, <<"index.html">> }

ProfileStates ==
  { [mode |-> 0, brightness |-> 50, speed |-> 5, color |-> Black,
     direction |-> 2, zone |-> 2],
    [mode |-> 1, brightness |-> 100, speed |-> 9, color |-> AcerGreen] }
\* What the user may type into the Save Profile dialog: a letter, a space,
\* an underscore, a character the cleaning drops.
NameChars == {"a", " ", "_", "!"}
DialogNames == UNION { [1 .. n -> NameChars] : n \in 0 .. MaxNameLen }
\* The JSON objects posted to /api/set_mode: each key present or absent; the
\* colour an array or, wrongly, a number.
JsonKeys == {"mode", "brightness", "speed", "color", "direction", "zone"}
JsonObject(present, mode, color_kind) ==
  [k \in present |->
     CASE k = "mode" -> mode
       [] k = "brightness" -> 50
       [] k = "speed" -> 9
       [] k = "color" -> [kind |-> color_kind,
                          items |-> IF color_kind = "array" THEN <<255, 0, 0>> ELSE <<>>]
       [] k = "direction" -> 2
       [] OTHER -> 3]
JsonObjects ==
  { JsonObject(present, mode, color_kind) :
      present \in SUBSET JsonKeys, mode \in {0, 4}, color_kind \in {"array", "number"} }
WebBodies ==
  {[kind |-> "malformed", data |-> <<>>]}
    \cup {[kind |-> "json", data |-> data] : data \in JsonObjects}
\* What the controller's set_rgb_mode does when called.
ControllerOutcomes == {"true", "false", "raises"}
\* The state dictionaries handed to update_from_state (a profile or the
\* controller's state); a key may be missing.
StateArgs ==
  { [mode |-> 0, brightness |-> 50, speed |-> 1, direction |-> 2, color |-> Black, zone |-> 2],
    [mode |-> 0, brightness |-> 100, speed |-> 9, direction |-> 1, color |-> Black, zone |-> 5],
    [mode |-> 1, brightness |-> 0, speed |-> 9, direction |-> 1, color |-> Black, zone |-> 1],
    [mode |-> 4, brightness |-> 100, speed |-> 5, direction |-> 2, color |-> AcerGreen, zone |-> 1],
    [mode |-> 2, speed |-> 1],
    [brightness |-> 50, color |-> Black],
    [mode |-> 5, direction |-> 2, zone |-> 3] }

(***************************************************************************)
(* Arithmetic helpers.                                                     *)
(***************************************************************************)
Max(a, b) == IF a >= b THEN a ELSE b
Min(a, b) == IF a <= b THEN a ELSE b

\* Scales of the fixed-point tables.
FactorScale == 10000000
ColorScale == 8000000

\* floor(((math.sin(n * 0.1) + 1) / 2) * FactorScale), n = 0..99 (entry n+1).
SinFactorTable ==
  <<5000000, 5499167, 5993346, 6477601, 6947091, 7397127, 7823212, 8221088,
    8586780, 8916634, 9207354, 9456036, 9660195, 9817790, 9927248, 9987474,
    9997868, 9958324, 9869238, 9731500, 9546487, 9316046, 9042482, 8728526,
    8377315, 7992360, 7577506, 7136899, 6674940, 6196246, 5705600, 5207903,
    4708129, 4211271, 3722294, 3246083, 2787397, 2350819, 1940710, 1561169,
    1215987, 908614, 642121, 419170, 241989, 112349, 31544, 383,
    19176, 87736, 205378, 370926, 582726, 838662, 1136177, 1472298,
    1843666, 2246572, 2676989, 3130616, 3602922, 4089187, 4584552, 5084069,
    5582746, 6075599, 6557706, 7024249, 7470566, 7892198, 8284932, 8644845,
    8968339, 9252183, 9493540, 9689999, 9839598, 9940841, 9992716, 9994706,
    9946791, 9849449, 9703652, 9510859, 9272994, 8992435, 8671985, 8314846,
    7924585, 7505104, 7060592, 6595491, 6114449, 5622272, 5123877, 4624244,
    4128366, 3641196, 3167604, 2712320>>

\* floor((0.3 + 0.7 * zoom_factor) * FactorScale), zoom_factor at frame n.
ZoomBrightnessTable ==
  <<6499999, 6849416, 7195342, 7534320, 7862964, 8177989, 8476248, 8754761,
    9010746, 9241644, 9445148, 9619225, 9762136, 9872453, 9949074, 9991232,
    9998507, 9970826, 9908466, 9812050, 9682540, 9521232, 9329737, 9109968,
    8864121, 8594652, 8304254, 7995829, 7672458, 7337372, 6993920, 6645532,
    6295690, 5947890, 5605606, 5272258, 4951178, 4645573, 4358497, 4092818,
    3851191, 3636030, 3449484, 3293419, 3169392, 3078644, 3022081, 3000268,
    3013423, 3061415, 3143765, 3259648, 3407908, 3587063, 3795324, 4030608,
    4290566, 4572600, 4873892, 5191431, 5522045, 5862431, 6209187, 6558848,
    6907922, 7252919, 7590394, 7916974, 8229396, 8524539, 8799453, 9051391,
    9277837, 9476528, 9645478, 9782999, 9887718, 9958588, 9994901, 9996294,
    9962753, 9894614, 9792556, 9657601, 9491096, 9294704, 9070389, 8820392,
    8547210, 8253572, 7942414, 7616844, 7280114, 6935590, 6586713, 6236971,
    5889856, 5548837, 5217323, 4898624>>

\* floor((0.8 + 0.2 * zoom_factor) * ColorScale), zoom_factor at frame n.
ZoomColorTable ==
  <<7200000, 7279866, 7358935, 7436416, 7511534, 7583540, 7651713, 7715374,
    7773884, 7826661, 7873176, 7912965, 7945631, 7970846, 7988359, 7997995,
    7999658, 7993331, 7979078, 7957040, 7927437, 7890567, 7846797, 7796564,
    7740370, 7678777, 7612401, 7541903, 7467990, 7391399, 7312896, 7233264,
    7153300, 7073803, 6995567, 6919373, 6845983, 6776131, 6710513, 6649787,
    6594558, 6545378, 6502739, 6467067, 6438718, 6417975, 6405047, 6400061,
    6403068, 6414037, 6432860, 6459348, 6493236, 6534186, 6581788, 6635567,
    6694986, 6759451, 6828318, 6900898, 6976467, 7054269, 7133528, 7213451,
    7293239, 7372095, 7449233, 7523879, 7595290, 7662751, 7725589, 7783175,
    7834934, 7880349, 7918966, 7950399, 7974335, 7990534, 7998834, 7999153,
    7991486, 7975911, 7952584, 7921737, 7883679, 7838789, 7787517, 7730375,
    7667933, 7600816, 7529694, 7455278, 7378311, 7299563, 7219820, 7139879,
    7060538, 6982591, 6906816, 6833971>>

\* floor((math.sin(n * 0.05) * 0.5 + 0.5) * ColorScale), n = 0..99.
ShiftAmountTable ==
  <<4000000, 4199916, 4399333, 4597752, 4794677, 4989615, 5182080, 5371591,
    5557673, 5739862, 5917702, 6090748, 6258569, 6420745, 6576870, 6726555,
    6869424, 7005121, 7133307, 7253662, 7365883, 7469692, 7564829, 7651055,
    7728156, 7795938, 7854232, 7902893, 7941798, 7970851, 7989979, 7999135,
    7998294, 7987460, 7966659, 7935943, 7895390, 7845100, 7785200, 7715838,
    7637189, 7549449, 7452837, 7347595, 7233985, 7112292, 6982820, 6845893,
    6701852, 6551058, 6393888, 6230734, 6062005, 5888122, 5709519, 5526643,
    5339952, 5149912, 4956997, 4761690, 4564480, 4365858, 4166322, 3966371,
    3766503, 3567219, 3369017, 3172392, 2977835, 2785833, 2596867, 2411407,
    2229918, 2052853, 1880655, 1713754, 1552568, 1397499, 1248935, 1107247,
    972790, 845898, 726891, 616065, 513696, 420042, 335336, 259789,
    193591, 136907, 89879, 52624, 25235, 7782, 306, 2828,
    15341, 37813, 70189, 112387>>

\* Frames the tables cover.
TableFrames == 0 .. (Len(SinFactorTable) - 1)

\* The factor without the division by 2.
SinFactorUnhalved(n) == 2 * SinFactorTable[n + 1]

\* (math.sin(n * 0.1) + 1) / 2 in fixed point: the breathing factor at frame n,
\* the wave brightness factor at wave position n, the zoom factor at frame n.
SinFactor(n) == SinFactorTable[n + 1]

\* int(brightness * factor) for a factor given in units of 1/FactorScale.
ScaleBrightness(brightness, factor) == (brightness * factor) \div FactorScale

\* (channel, brightness) where the double product channel * (brightness / 100.0)
\* is one ulp below the exact integer channel * brightness / 100.
ScaleRoundsShort ==
  { <<50, 58>>, <<90, 70>>, <<100, 29>>, <<100, 57>>, <<100, 58>>, <<150, 82>>,
    <<170, 70>>, <<180, 35>>, <<180, 70>>, <<200, 29>>, <<200, 57>>, <<200, 58>> }

\* int(channel * factor) with factor = brightness / 100.0 (KeyWidget.set_color).
ScaleChannel(channel, brightness) ==
  IF <<channel, brightness>> \in ScaleRoundsShort
  THEN (channel * brightness) \div 100 - 1
  ELSE (channel * brightness) \div 100

\* QColor.setHsv(hue, 255, 255) read back through red(), green(), blue():
\* full saturation and value, so one channel is 255, one is 0 and the third
\* ramps linearly over the 60 degrees of the hue's sextant, rounded to 8 bits
\* (Qt rounds in 16-bit steps first, which can move a tie by one).
HsvRamp(x) == (x * 255 * 2 + 60) \div 120
HsvToRgb(hue) ==
  LET i == (hue % 360) \div 60
      x == (hue % 360) % 60
      up == HsvRamp(x)
      dn == HsvRamp(60 - x)
  IN  CASE i = 0 -> <<255, up, 0>>
        [] i = 1 -> <<dn, 255, 0>>
        [] i = 2 -> <<0, 255, up>>
        [] i = 3 -> <<0, dn, 255>>
        [] i = 4 -> <<up, 0, 255>>
        [] OTHER -> <<255, 0, dn>>

(***************************************************************************)
(* KeyWidget.                                                              *)
(***************************************************************************)
OffGray == <<30, 30, 30>>

\* set_color without the dark gray of a key that is off.
AdjustedColorNoGray(color, brightness) ==
  IF brightness < 100
  THEN <<ScaleChannel(color[1], brightness),
         ScaleChannel(color[2], brightness),
         ScaleChannel(color[3], brightness)>>
  ELSE color

\* adjusted_color of KeyWidget.set_color: the colour scaled by the brightness,
\* or the dark gray of a key that is off.
AdjustedColor(color, brightness) ==
  LET scaled == IF brightness < 100
                THEN <<ScaleChannel(color[1], brightness),
                       ScaleChannel(color[2], brightness),
                       ScaleChannel(color[3], brightness)>>
                ELSE color
  IN  IF brightness = 0 THEN OffGray ELSE scaled

\* KeyWidget.set_color: the key's fields after the call.
set_color(color, brightness) ==
  [current_color |-> color, brightness |-> brightness]

\* The background colour of the key's style sheet.  set_color writes it from
\* the two fields it has just stored (and __init__ from the same defaults), so
\* it is a function of them.
StyleColor(key) == AdjustedColor(key.current_color, key.brightness)

(***************************************************************************)
(* KeyboardPreviewWidget: layout.                                          *)
(***************************************************************************)
NumZones == 4
KeysPerZone == 8
\* create_keyboard_layout appends 8 small keys per zone, zone by zone, and
\* then one wide key per zone: 36 keys, indexed as enumerate(self.keys).
NumKeys == NumZones * KeysPerZone + NumZones
KeyIds == 0 .. (NumKeys - 1)
\* key.zone_id of key i
KeyZone ==
  [i \in KeyIds |->
     IF i < NumZones * KeysPerZone THEN i \div KeysPerZone + 1
     ELSE i - NumZones * KeysPerZone + 1]

\* The guard "0 <= zone_idx < 4" of the loops over self.keys, per key.
KeyHasZone == [i \in KeyIds |-> 0 <= KeyZone[i] - 1 /\ KeyZone[i] - 1 < 4]

\* self.keys after a loop that calls set_color on every key whose zone passes
\* the guard; the keys of a zone get equal arguments, so zone_key holds the
\* result of the call once per zone.
KeysByZone(zone_key, old_keys) ==
  [i \in KeyIds |-> IF KeyHasZone[i] THEN zone_key[KeyZone[i]] ELSE old_keys[i]]

\* The same for the loops that have no guard.
KeysOfZone(zone_key) == [i \in KeyIds |-> zone_key[KeyZone[i]]]

AnimatedModes == {1, 2, 3, 4, 5}

\* The widget as a record: what the methods below read and return.
Self ==
  [animation_frame |-> animation_frame, current_mode |-> current_mode,
   current_brightness |-> current_brightness, current_speed |-> current_speed,
   current_direction |-> current_direction, zone_colors |-> zone_colors,
   timer_active |-> timer_active, timer_interval |-> timer_interval,
   keys |-> keys]

\* The widget is w (the state a specification starts in).
Holds(w) ==
  /\ animation_frame = w.animation_frame
  /\ current_mode = w.current_mode
  /\ current_brightness = w.current_brightness
  /\ current_speed = w.current_speed
  /\ current_direction = w.current_direction
  /\ zone_colors = w.zone_colors
  /\ timer_active = w.timer_active
  /\ timer_interval = w.timer_interval
  /\ keys = w.keys

\* The widget after a handler has returned w.
Commit(w) ==
  /\ animation_frame' = w.animation_frame
  /\ current_mode' = w.current_mode
  /\ current_brightness' = w.current_brightness
  /\ current_speed' = w.current_speed
  /\ current_direction' = w.current_direction
  /\ zone_colors' = w.zone_colors
  /\ timer_active' = w.timer_active
  /\ timer_interval' = w.timer_interval
  /\ keys' = w.keys

(***************************************************************************)
(* KeyboardPreviewWidget: methods.                                         *)
(***************************************************************************)
update_keys(w) ==
  LET zone_key == [z \in 1 .. NumZones |->
                     set_color(w.zone_colors[z], w.current_brightness)]
  IN  [w EXCEPT !.keys = KeysByZone(zone_key, w.keys)]

\* start_animation testing the wrong list of modes, [0, 1, 2, 3, 4].
start_animation_wrong_modes(w) ==
  IF w.current_mode \in {0, 1, 2, 3, 4}
  THEN [w EXCEPT !.timer_active = TRUE, !.timer_interval = 100]
  ELSE [w EXCEPT !.timer_active = FALSE]

\* QTimer.start(100) arms the timer with interval 100; QTimer.stop() disarms
\* it and keeps the interval.
start_animation(w) ==
  IF w.current_mode \in AnimatedModes
  THEN [w EXCEPT !.timer_active = TRUE, !.timer_interval = 100]
  ELSE [w EXCEPT !.timer_active = FALSE]

\* update_animation_mode leaving the timer running in Static mode.
update_animation_mode_no_stop(w) ==
  IF w.current_mode \in AnimatedModes
  THEN start_animation(w)
  ELSE update_keys(w)

update_animation_mode(w) ==
  IF w.current_mode \in AnimatedModes
  THEN start_animation(w)
  ELSE update_keys([w EXCEPT !.timer_active = FALSE])

\* The interval with min for max.
SpeedIntervalMin(speed) == Min(50, 250 - speed * 20)

\* interval = max(50, 250 - (self.current_speed * 20))
SpeedInterval(speed) == Max(50, 250 - speed * 20)

update_animation_speed(w) ==
  IF w.timer_active
  THEN [w EXCEPT !.timer_interval = SpeedInterval(w.current_speed)]
  ELSE w

\* animate_breathing handing each key its colour already dimmed by the
\* breathing factor.
animate_breathing_dimmed(w) ==
  LET effective_brightness ==
        ScaleBrightness(w.current_brightness, SinFactor(w.animation_frame))
      zone_key == [z \in 1 .. NumZones |->
                     set_color(AdjustedColor(w.zone_colors[z], effective_brightness),
                               effective_brightness)]
  IN  [w EXCEPT !.keys = KeysByZone(zone_key, w.keys)]

animate_breathing(w) ==
  LET effective_brightness ==
        ScaleBrightness(w.current_brightness, SinFactor(w.animation_frame))
      zone_key == [z \in 1 .. NumZones |->
                     set_color(w.zone_colors[z], effective_brightness)]
  IN  [w EXCEPT !.keys = KeysByZone(zone_key, w.keys)]

\* The hue advancing by 20 degrees from key to key.
NeonHueCoarse(frame, i) == (frame * 2 + i * 20) % 360

\* hue = (self.animation_frame * 2 + i * 10) % 360
NeonHue(frame, i) == (frame * 2 + i * 10) % 360

animate_neon(w) ==
  [w EXCEPT !.keys =
     [i \in KeyIds |->
        set_color(HsvToRgb(NeonHue(w.animation_frame, i)), w.current_brightness)]]

\* wave_pos with the two directions exchanged.
WavePosSwapped(frame, zone_idx, direction) ==
  IF direction = 1
  THEN (frame + zone_idx * 10) % 100
  ELSE (frame - zone_idx * 10) % 100

\* wave_pos of a key of 0-based zone zone_idx; Python's % is the floored
\* remainder, as is TLA+'s.
WavePos(frame, zone_idx, direction) ==
  IF direction = 1
  THEN (frame - zone_idx * 10) % 100
  ELSE (frame + zone_idx * 10) % 100

\* int((wave_pos * 3.6) % 360): for wave_pos in 0..99 the double product
\* floors to (wave_pos * 36) div 10.
WaveHue(wave_pos) == ((wave_pos * 36) \div 10) % 360

animate_wave(w) ==
  LET zone_key ==
        [z \in 1 .. NumZones |->
           LET wave_pos == WavePos(w.animation_frame, z - 1, w.current_direction)
               effective_brightness ==
                 ScaleBrightness(w.current_brightness, SinFactor(wave_pos))
           IN  set_color(HsvToRgb(WaveHue(wave_pos)), effective_brightness)]
  IN  [w EXCEPT !.keys = KeysOfZone(zone_key)]

\* shift_amount = math.sin(frame * 0.05) * 0.5 + 0.5, in units of 1/ColorScale
ShiftAmount(frame) == ShiftAmountTable[frame + 1]

\* (frame, original, base) where the double sum
\* original * (1 - shift_amount) + base * shift_amount is one ulp below the
\* exact integer, among the base channels the hue of that frame has.
ShiftRoundsShort == { <<74, 255, 255>>, <<87, 255, 255>>, <<89, 247, 247>> }

\* int(original * (1 - shift_amount) + base * shift_amount)
MixChannel(frame, original, base) ==
  LET exact == (original * (ColorScale - ShiftAmount(frame))
                + base * ShiftAmount(frame)) \div ColorScale
  IN  IF <<frame, original, base>> \in ShiftRoundsShort THEN exact - 1 ELSE exact

\* animate_shifting blending each zone's own colour with the frame's hue.
animate_shifting_per_zone(w) ==
  LET hue == (w.animation_frame * 2) % 360
      base_color == HsvToRgb(hue)
      zone_key ==
        [z \in 1 .. NumZones |->
           LET original == w.zone_colors[z]
           IN  set_color(<<MixChannel(w.animation_frame, original[1], base_color[1]),
                           MixChannel(w.animation_frame, original[2], base_color[2]),
                           MixChannel(w.animation_frame, original[3], base_color[3])>>,
                         w.current_brightness)]
  IN  [w EXCEPT !.keys = KeysOfZone(zone_key)]

animate_shifting(w) ==
  LET hue == (w.animation_frame * 2) % 360
      base_color == HsvToRgb(hue)
      original == w.zone_colors[1]
      mixed_color == <<MixChannel(w.animation_frame, original[1], base_color[1]),
                       MixChannel(w.animation_frame, original[2], base_color[2]),
                       MixChannel(w.animation_frame, original[3], base_color[3])>>
      key == set_color(mixed_color, w.current_brightness)
  IN  [w EXCEPT !.keys = [i \in KeyIds |-> key]]

\* int(self.current_brightness * (0.3 + 0.7 * zoom_factor))
ZoomBrightness(brightness, frame) ==
  ScaleBrightness(brightness, ZoomBrightnessTable[frame + 1])

\* min(255, int(channel * (0.8 + 0.2 * zoom_factor))), the factor
\* 0.8 + 0.2 * zoom_factor given in units of 1 / ColorScale.
ZoomScale(channel, color_factor) ==
  Min(255, (channel * color_factor) \div ColorScale)

\* The zoom colour scaled by 1.0 + 0.2 * zoom_factor instead.
ZoomChannelOverdriven(channel, frame) ==
  Min(255, (channel * ((ZoomColorTable[frame + 1] + ColorScale \div 5) \div 8))
             \div (ColorScale \div 8))

ZoomChannel(channel, frame) == ZoomScale(channel, ZoomColorTable[frame + 1])

animate_zoom(w) ==
  LET zone_key ==
        [z \in 1 .. NumZones |->
           LET base_color == w.zone_colors[z]
               effective_brightness ==
                 ZoomBrightness(w.current_brightness, w.animation_frame)
               zoom_color == <<ZoomChannel(base_color[1], w.animation_frame),
                               ZoomChannel(base_color[2], w.animation_frame),
                               ZoomChannel(base_color[3], w.animation_frame)>>
           IN  set_color(zoom_color, effective_brightness)]
  IN  [w EXCEPT !.keys = KeysOfZone(zone_key)]

\* update_animation whose dispatch ends in "else: animate_wave()".
update_animation_else_wave(w) ==
  LET w1 == [w EXCEPT !.animation_frame = @ + 1]
  IN  CASE w1.current_mode = 1 -> animate_breathing(w1)
        [] w1.current_mode = 2 -> animate_neon(w1)
        [] w1.current_mode = 4 -> animate_shifting(w1)
        [] w1.current_mode = 5 -> animate_zoom(w1)
        [] OTHER -> animate_wave(w1)

\* The timer's timeout slot.
update_animation(w) ==
  LET w1 == [w EXCEPT !.animation_frame = @ + 1]
  IN  CASE w1.current_mode = 1 -> animate_breathing(w1)
        [] w1.current_mode = 2 -> animate_neon(w1)
        [] w1.current_mode = 3 -> animate_wave(w1)
        [] w1.current_mode = 4 -> animate_shifting(w1)
        [] w1.current_mode = 5 -> animate_zoom(w1)
        [] OTHER -> w1

\* update_color without the test on the mode.
update_color_any_mode(w, color) ==
  update_keys([w EXCEPT !.zone_colors = [z \in 1 .. NumZones |-> color]])

update_color(w, color) ==
  IF w.current_mode \in {0, 1, 4, 5}
  THEN update_keys([w EXCEPT !.zone_colors = [z \in 1 .. 4 |-> color]])
  ELSE w

update_zone_color(w, zone, color) ==
  IF 1 <= zone /\ zone <= 4
  THEN update_keys([w EXCEPT !.zone_colors[zone] = color])
  ELSE w

\* update_brightness without the refresh of the keys.
update_brightness_no_refresh(w, brightness) ==
  [w EXCEPT !.current_brightness = brightness]

update_brightness(w, brightness) ==
  update_keys([w EXCEPT !.current_brightness = brightness])

update_mode(w, mode) ==
  update_keys(update_animation_mode([w EXCEPT !.current_mode = mode]))

\* update_speed restarting the animation from frame 0.
update_speed_restart(w, speed) ==
  update_animation_speed([w EXCEPT !.current_speed = speed, !.animation_frame = 0])

update_speed(w, speed) ==
  update_animation_speed([w EXCEPT !.current_speed = speed])

\* update_direction refreshing the keys as update_brightness does.
update_direction_refresh(w, direction) ==
  update_keys([w EXCEPT !.current_direction = direction])

update_direction(w, direction) ==
  [w EXCEPT !.current_direction = direction]

\* state.get(key, default)
Get(state, key, default) == IF key \in DOMAIN state THEN state[key] ELSE default

\* update_from_state keeping the preview's value for a key the state lacks.
update_from_state_keeping(w, state) ==
  LET w1 == [w EXCEPT !.current_mode = Get(state, "mode", w.current_mode),
                      !.current_brightness = Get(state, "brightness", w.current_brightness),
                      !.current_speed = Get(state, "speed", w.current_speed),
                      !.current_direction = Get(state, "direction", w.current_direction)]
      new_color == Get(state, "color", <<50, 255, 50>>)
      w2 == IF w1.current_mode = 0
            THEN update_zone_color(w1, Get(state, "zone", 1), new_color)
            ELSE update_color(w1, new_color)
      w3 == update_mode(w2, w2.current_mode)
  IN  update_speed(w3, w3.current_speed)

update_from_state(w, state) ==
  LET w1 == [w EXCEPT !.current_mode = Get(state, "mode", 3),
                      !.current_brightness = Get(state, "brightness", 100),
                      !.current_speed = Get(state, "speed", 5),
                      !.current_direction = Get(state, "direction", 1)]
      new_color == Get(state, "color", <<50, 255, 50>>)
      w2 == IF w1.current_mode = 0
            THEN update_zone_color(w1, Get(state, "zone", 1), new_color)
            ELSE update_color(w1, new_color)
      w3 == update_mode(w2, w2.current_mode)
  IN  update_speed(w3, w3.current_speed)

\* __init__ with the brand green #83B81A as the default zone colour.
Constructed_brand_green ==
  LET fields == [animation_frame |-> 0, current_mode |-> 3,
                 current_brightness |-> 100, current_speed |-> 5,
                 current_direction |-> 1,
                 zone_colors |-> [z \in 1 .. 4 |-> <<131, 184, 26>>],
                 timer_active |-> FALSE, timer_interval |-> 0]
      laid_out == [i \in KeyIds |->
                     set_color(fields.zone_colors[KeyZone[i]], fields.current_brightness)]
  IN  start_animation([animation_frame |-> fields.animation_frame,
                       current_mode |-> fields.current_mode,
                       current_brightness |-> fields.current_brightness,
                       current_speed |-> fields.current_speed,
                       current_direction |-> fields.current_direction,
                       zone_colors |-> fields.zone_colors,
                       timer_active |-> fields.timer_active,
                       timer_interval |-> fields.timer_interval,
                       keys |-> laid_out])

\* KeyboardPreviewWidget.__init__: the fields, the 36 keys laid out with the
\* zone colours, then start_animation().
Constructed ==
  LET fields == [animation_frame |-> 0, current_mode |-> 3,
                 current_brightness |-> 100, current_speed |-> 5,
                 current_direction |-> 1,
                 zone_colors |-> [z \in 1 .. 4 |-> <<50, 255, 50>>],
                 timer_active |-> FALSE, timer_interval |-> 0]
      laid_out == [i \in KeyIds |->
                     set_color(fields.zone_colors[KeyZone[i]], fields.current_brightness)]
  IN  start_animation([animation_frame |-> fields.animation_frame,
                       current_mode |-> fields.current_mode,
                       current_brightness |-> fields.current_brightness,
                       current_speed |-> fields.current_speed,
                       current_direction |-> fields.current_direction,
                       zone_colors |-> fields.zone_colors,
                       timer_active |-> fields.timer_active,
                       timer_interval |-> fields.timer_interval,
                       keys |-> laid_out])

(***************************************************************************)
(* The widgets around the preview: the control panels                      *)
(* (components/control_panels.py), the main window (main_window.py) and    *)
(* the web handler (web_gui.py).  Each is a record; a handler is an        *)
(* operator from record to record, as for the preview.                     *)
(***************************************************************************)
\* ControlPanelsWidget.update_visibility: setVisible on the three optional
\* controls, from current_state['mode'].
update_visibility_speed_always(p) ==
  LET mode == p.state_mode
  IN  [p EXCEPT !.speed_visible = TRUE,
                !.direction_visible = mode \in {3, 4},
                !.zone_visible = (mode = 0)]

update_visibility(p) ==
  LET mode == p.state_mode
  IN  [p EXCEPT !.speed_visible = mode \in {1, 2, 3, 4, 5},
                !.direction_visible = mode \in {3, 4},
                !.zone_visible = (mode = 0)]

\* pyqtSignal.emit on one of ControlPanelsWidget's signals: emitted is the
\* list of the signals the widget has emitted since the running operation
\* began, in order.
Emit(p, signal, value) ==
  [p EXCEPT !.emitted = Append(@, [signal |-> signal, value |-> value])]

\* The start of an operation (a user gesture or an outside call).
Begin(p) == [p EXCEPT !.emitted = <<>>]

\* ControlPanelsWidget.on_mode_changed: stores the mode, updates the
\* visibility and re-emits mode_changed.
on_mode_changed(p, mode_id) ==
  Emit(update_visibility([p EXCEPT !.state_mode = mode_id]), "mode_changed", mode_id)

\* ModeSelector.on_mode_selected: stores the mode and emits mode_changed,
\* whose slots are on_mode_changed and then update_visibility.
on_mode_selected(p, mode_id) ==
  update_visibility(on_mode_changed([p EXCEPT !.selector_mode = mode_id], mode_id))

\* QAbstractSlider.setValue and QSpinBox.setValue bound the value to the
\* range of the control.
Bounded(value, minimum, maximum) ==
  IF value < minimum THEN minimum ELSE IF value > maximum THEN maximum ELSE value

RECURSIVE on_brightness_changed(_, _, _)
RECURSIVE on_power_toggled(_, _)
RECURSIVE set_brightness(_, _)
RECURSIVE brightness_slider_setValue(_, _)
RECURSIVE brightness_spinbox_setValue(_, _)
RECURSIVE power_button_setChecked(_, _)

\* brightness_slider.setValue: valueChanged, connected to
\* on_brightness_changed, is emitted only if the value changes; the slot
\* runs before setValue returns.
brightness_slider_setValue(p, value) ==
  LET v == Bounded(value, 0, 100)
  IN  IF v = p.brightness_slider THEN p
      ELSE on_brightness_changed([p EXCEPT !.brightness_slider = v], v, "brightness_slider")

\* brightness_spinbox.setValue, likewise.
brightness_spinbox_setValue(p, value) ==
  LET v == Bounded(value, 0, 100)
  IN  IF v = p.brightness_spinbox THEN p
      ELSE on_brightness_changed([p EXCEPT !.brightness_spinbox = v], v, "brightness_spinbox")

\* power_button.setChecked: toggled, connected to on_power_toggled, is
\* emitted only if the checked state changes.
power_button_setChecked(p, checked) ==
  IF checked = p.power_button THEN p
  ELSE on_power_toggled([p EXCEPT !.power_button = checked], checked)

\* BrightnessControl.on_brightness_changed as the slot of the control named
\* by sender: the other control is set to the value, then the value is
\* stored, brightness_changed is emitted (ControlPanelsWidget re-emits it)
\* and the power button is set.
on_brightness_changed(p, value, sender) ==
  LET synced == IF sender = "brightness_slider" THEN brightness_spinbox_setValue(p, value)
                ELSE IF sender = "brightness_spinbox" THEN brightness_slider_setValue(p, value)
                ELSE p
      stored == [synced EXCEPT !.current_brightness = value]
      emitted == Emit(stored, "brightness_changed", value)
  IN  power_button_setChecked(emitted, value > 0)

\* on_power_toggled leaving the brightness alone.
on_power_toggled_idle(p, checked) == p

\* BrightnessControl.on_power_toggled
on_power_toggled(p, checked) ==
  IF checked
  THEN IF p.current_brightness = 0 THEN set_brightness(p, 100) ELSE p
  ELSE set_brightness(p, 0)

\* BrightnessControl.set_brightness
set_brightness(p, brightness) ==
  [brightness_slider_setValue(p, brightness) EXCEPT !.current_brightness = brightness]

\* SpeedControl.on_speed_changed: stores the value and emits speed_changed.
on_speed_changed(p, value) ==
  Emit([p EXCEPT !.current_speed = value], "speed_changed", value)

\* speed_slider.setValue, the slider having the range 1..9 and
\* on_speed_changed as the slot of valueChanged.
speed_slider_setValue(p, value) ==
  LET v == Bounded(value, 1, 9)
  IN  IF v = p.speed_slider THEN p
      ELSE on_speed_changed([p EXCEPT !.speed_slider = v], v)

\* SpeedControl.set_speed
set_speed(p, speed) ==
  [speed_slider_setValue(p, speed) EXCEPT !.current_speed = speed]

\* The id direction_group gives the checked direction button.
checkedId(p) ==
  IF p.right_to_left_btn THEN 1 ELSE IF p.left_to_right_btn THEN 2 ELSE -1

\* setChecked(True) on a button of the exclusive direction_group, by a click
\* or by the program: the other button is unchecked.
direction_setChecked(p, id) ==
  [p EXCEPT !.right_to_left_btn = (id = 1), !.left_to_right_btn = (id = 2)]

\* DirectionControl.on_direction_changed, the slot of buttonClicked: stores
\* the id of the clicked button and emits direction_changed.
on_direction_changed(p, direction) ==
  Emit([direction_setChecked(p, direction) EXCEPT !.current_direction = direction],
       "direction_changed", direction)

\* DirectionControl.set_direction
set_direction(p, direction) ==
  [direction_setChecked(p, IF direction = 1 THEN 1 ELSE 2)
     EXCEPT !.current_direction = direction]

\* ZoneControl.on_zone_changed: stores the zone and emits zone_changed.
on_zone_changed(p, zone_id) ==
  Emit([p EXCEPT !.current_zone = zone_id], "zone_changed", zone_id)

\* ZoneControl.set_zone
set_zone(p, zone_id) == [p EXCEPT !.current_zone = zone_id]

\* ControlPanelsWidget.__init__ with the sub-controls' own defaults.
PanelConstructed ==
  update_visibility([state_mode |-> 3, selector_mode |-> 3,
                     current_brightness |-> 100, brightness_slider |-> 100,
                     brightness_spinbox |-> 100, power_button |-> TRUE,
                     current_speed |-> 5, speed_slider |-> 5,
                     current_direction |-> 1, left_to_right_btn |-> TRUE,
                     right_to_left_btn |-> FALSE, current_zone |-> 1,
                     speed_visible |-> TRUE, direction_visible |-> TRUE,
                     zone_visible |-> TRUE, emitted |-> <<>>])

\* MainWindow.__init__ followed by main(): the controller exists, and the
\* signals are connected, only if facer_rgb.py was found; the tray icon is
\* shown if a system tray is available and --no-tray was not given; the
\* window is shown unless --minimized was given and there is a tray object.
MainWindowStarted(facer_found, tray_available, no_tray, minimized) ==
  [connected |-> facer_found,
   tray_visible |-> tray_available /\ ~no_tray,
   visible |-> ~(minimized /\ tray_available),
   closed |-> FALSE,
   close_event |-> "none"]

\* closeEvent accepting the event whether or not the tray icon is shown.
closeEvent_accepting(win) ==
  [win EXCEPT !.close_event = "accepted", !.visible = FALSE, !.closed = TRUE]

\* MainWindow.closeEvent, reached through QWidget.close(): with the tray
\* icon shown the window is hidden and the event ignored; otherwise the
\* event is accepted and Qt closes the window.
closeEvent(win) ==
  IF win.tray_visible
  THEN [win EXCEPT !.visible = FALSE, !.close_event = "ignored"]
  ELSE [win EXCEPT !.close_event = "accepted", !.visible = FALSE, !.closed = TRUE]

\* MainWindow.tray_activated(DoubleClick)
tray_activated(win) == [win EXCEPT !.visible = ~win.visible]

\* ModeSelector.set_mode: only a mode that has a button is taken.
set_mode(p, mode_id) ==
  IF 0 <= mode_id /\ mode_id < 6 THEN [p EXCEPT !.selector_mode = mode_id] ELSE p

\* ControlPanelsWidget.update_from_state: current_state.update(state), the
\* five set_* calls with their defaults, then update_visibility.
panel_update_from_state(p, state) ==
  LET updated == [p EXCEPT !.state_mode = Get(state, "mode", p.state_mode)]
      moded == set_mode(updated, Get(state, "mode", 3))
      lit == set_brightness(moded, Get(state, "brightness", 100))
      paced == set_speed(lit, Get(state, "speed", 5))
      directed == set_direction(paced, Get(state, "direction", 1))
      zoned == set_zone(directed, Get(state, "zone", 1))
  IN  update_visibility(zoned)

\* MainWindow.apply_mode, apply_brightness, apply_speed and apply_color, the
\* slots connect_signals gives the control panels' and the colour picker's
\* signals: each calls rgb_controller.set_rgb_mode and nothing else, so the
\* preview w is returned as it was.  (The controller, core/rgb_controller.py,
\* is not among the sources; it holds no reference to a widget.)
apply_mode(w, mode_id) == w
apply_brightness(w, brightness) == w
apply_speed(w, speed) == w
apply_color(w, color) == w

\* The rgb_controller.set_rgb_mode calls made for the signals the control
\* panels have emitted: connect_signals, run only if there is a controller,
\* gives mode_changed, brightness_changed and speed_changed the slots
\* apply_mode, apply_brightness and apply_speed, each of which makes one
\* call; direction_changed and zone_changed have no slot.
set_rgb_mode_calls(win, p) ==
  IF win.connected
  THEN SelectSeq(p.emitted,
                 LAMBDA e : e.signal \in {"mode_changed", "brightness_changed", "speed_changed"})
  ELSE <<>>

\* The slots of ColorPickerWidget.color_changed, in connection order.
color_changed(w, color) == apply_color(update_color(w, color), color)

\* ---- ProfileManagerWidget (components/profile_manager.py) ----
\* A profile name is a sequence of characters.
IsSpace(c) == c = " "
\* c.isalnum() or c in (' ', '-', '_')
IsAlnum(c) == c \in {"a", "7"}
IsNameChar(c) == IsAlnum(c) \/ c \in {" ", "-", "_"}

\* str.strip(): leading and trailing white space removed.
RECURSIVE LStrip(_)
LStrip(name) ==
  IF name # <<>> /\ IsSpace(Head(name)) THEN LStrip(Tail(name)) ELSE name
RECURSIVE RStrip(_)
RStrip(name) ==
  IF name # <<>> /\ IsSpace(name[Len(name)])
  THEN RStrip(SubSeq(name, 1, Len(name) - 1))
  ELSE name
Strip(name) == RStrip(LStrip(name))

\* "".join(c for c in name.strip() if c.isalnum() or c in (' ', '-', '_'))
CleanName(name) == SelectSeq(Strip(name), IsNameChar)

\* The cleaning without the test on each character.
save_new_profile_unfiltered(pm, name, ok, exists, reply) ==
  LET asked == [pm EXCEPT !.dialog = [name |-> name, ok |-> ok],
                          !.existed = FALSE, !.reply = "none",
                          !.emitted = <<>>, !.warned = FALSE]
      clean_name == Strip(name)
      saved == <<[signal |-> "profile_saved", name |-> clean_name]>>
  IN  IF ~(ok /\ Strip(name) # <<>>) THEN asked
      ELSE IF clean_name = <<>> THEN [asked EXCEPT !.warned = TRUE]
      ELSE IF ~exists THEN [asked EXCEPT !.emitted = saved]
      ELSE IF reply # "yes" THEN [asked EXCEPT !.existed = TRUE, !.reply = reply]
      ELSE [asked EXCEPT !.existed = TRUE, !.reply = reply, !.emitted = saved]

\* ProfileManagerWidget.save_new_profile: the dialog returns (name, ok);
\* exists is whether a file of the cleaned name is on disk, and if so the
\* user is asked and answers reply.  emitted lists the signals of the call.
save_new_profile(pm, name, ok, exists, reply) ==
  LET asked == [pm EXCEPT !.dialog = [name |-> name, ok |-> ok],
                          !.existed = FALSE, !.reply = "none",
                          !.emitted = <<>>, !.warned = FALSE]
      clean_name == CleanName(name)
      saved == <<[signal |-> "profile_saved", name |-> clean_name]>>
  IN  IF ~(ok /\ Strip(name) # <<>>) THEN asked
      ELSE IF clean_name = <<>> THEN [asked EXCEPT !.warned = TRUE]
      ELSE IF ~exists THEN [asked EXCEPT !.emitted = saved]
      ELSE IF reply # "yes" THEN [asked EXCEPT !.existed = TRUE, !.reply = reply]
      ELSE [asked EXCEPT !.existed = TRUE, !.reply = reply, !.emitted = saved]

\* ProfileManagerWidget.__init__
ProfilesConstructed ==
  [dialog |-> [name |-> <<>>, ok |-> FALSE], existed |-> FALSE,
   reply |-> "none", emitted |-> <<>>, warned |-> FALSE]

\* The keyword arguments handle_set_mode may pass on.
WebKeys == {"brightness", "speed", "color", "direction", "zone"}

\* set_rgb_mode was not reached.
NoCall == [made |-> FALSE, mode |-> 0, kwargs |-> <<>>, result |-> "none"]

\* send_json({'error': str(e)}, 500)
ErrorResponse == [status |-> 500, key |-> "error", success |-> FALSE]

\* handle_set_mode passing a default for every keyword the body lacks.
handle_set_mode_defaults(wb, body, outcome) ==
  IF body.kind # "json"
  THEN [wb EXCEPT !.request = body, !.call = NoCall, !.response = ErrorResponse]
  ELSE
    LET data == body.data
        mode == Get(data, "mode", 3)
        bad_color == "color" \in DOMAIN data /\ data["color"].kind # "array"
        defaults == [brightness |-> 100, speed |-> 5, color |-> <<50, 255, 50>>,
                     direction |-> 1, zone |-> 1]
        kwargs == [k \in WebKeys |->
                     IF k \notin DOMAIN data THEN defaults[k]
                     ELSE IF k = "color" THEN data[k].items ELSE data[k]]
    IN  IF bad_color
        THEN [wb EXCEPT !.request = body, !.call = NoCall, !.response = ErrorResponse]
        ELSE [wb EXCEPT
                !.request = body,
                !.call = [made |-> TRUE, mode |-> mode, kwargs |-> kwargs,
                          result |-> outcome],
                !.response =
                  IF outcome = "raises" THEN ErrorResponse
                  ELSE [status |-> 200, key |-> "success",
                        success |-> (outcome = "true")]]

\* RGBWebHandler.handle_set_mode.  body is the request body: not JSON (or
\* no Content-Length), or a JSON object; a JSON array is tagged "array", any
\* other colour value makes tuple() raise.  outcome is what set_rgb_mode
\* does: return True, return False, or raise.  Every exception is answered
\* with status 500.
handle_set_mode(wb, body, outcome) ==
  IF body.kind # "json"
  THEN [wb EXCEPT !.request = body, !.call = NoCall, !.response = ErrorResponse]
  ELSE
    LET data == body.data
        mode == Get(data, "mode", 3)
        bad_color == "color" \in DOMAIN data /\ data["color"].kind # "array"
        kwargs == [k \in (DOMAIN data) \cap WebKeys |->
                     IF k = "color" THEN data[k].items ELSE data[k]]
    IN  IF bad_color
        THEN [wb EXCEPT !.request = body, !.call = NoCall, !.response = ErrorResponse]
        ELSE [wb EXCEPT
                !.request = body,
                !.call = [made |-> TRUE, mode |-> mode, kwargs |-> kwargs,
                          result |-> outcome],
                !.response =
                  IF outcome = "raises" THEN ErrorResponse
                  ELSE [status |-> 200, key |-> "success",
                        success |-> (outcome = "true")]]

\* urlparse(self.path).path as the list of its segments: "/" is <<>>,
\* "/api/status" is <<"api", "status">>, "/api/" is <<"api", "">>.
StartsWithApi(path) == Len(path) >= 2 /\ path[1] = "api"

\* A handler that raised before sending anything: http.server sends no
\* response for the request.
Unanswered(error) == [status |-> 0, key |-> error, success |-> FALSE]

\* serve_status, serve_modes, serve_profiles: the controller's answer as
\* JSON, or status 500 if the controller raises.
serve_json(outcome, key) ==
  IF outcome = "raises" THEN ErrorResponse
  ELSE [status |-> 200, key |-> key, success |-> FALSE]

\* RGBWebHandler.do_GET.  serve_api, called for the other paths under
\* /api/, is not a method of the class or of SimpleHTTPRequestHandler: the
\* call raises AttributeError.  Any path outside /api/ goes to
\* SimpleHTTPRequestHandler.do_GET, which answers 200 if it finds the file
\* and 404 if not.
do_GET(wb, path, outcome, found) ==
  LET response ==
        IF path = <<>> THEN [status |-> 200, key |-> "html", success |-> FALSE]
        ELSE IF path = <<"api", "status">> THEN serve_json(outcome, "state")
        ELSE IF path = <<"api", "modes">> THEN serve_json(outcome, "modes")
        ELSE IF path = <<"api", "profiles">> THEN serve_json(outcome, "profiles")
        ELSE IF StartsWithApi(path) THEN Unanswered("AttributeError")
        ELSE [status |-> IF found THEN 200 ELSE 404, key |-> "file", success |-> FALSE]
  IN  [wb EXCEPT !.request = [kind |-> "GET", data |-> path],
                 !.call = NoCall,
                 !.response = response]

\* No request handled yet.
WebIdle ==
  [request |-> [kind |-> "none", data |-> <<>>],
   call |-> NoCall,
   response |-> [status |-> 0, key |-> "none", success |-> FALSE]]

\* The application outside the preview, as started with the controller and
\* the tray present.
HostInit ==
  /\ panel = PanelConstructed
  /\ window = MainWindowStarted(TRUE, TRUE, FALSE, FALSE)
  /\ web = WebIdle
  /\ profile_manager = ProfilesConstructed

(***************************************************************************)
(* Actions: one per public method, and the timer's tick.                   *)
(***************************************************************************)
Init ==
  /\ Holds(Constructed)
  /\ stray_ticks = 0
  /\ HostInit

UpdateColor(color) ==
  /\ Commit(update_color(Self, color))
  /\ UNCHANGED <<stray_ticks, panel, window, web, profile_manager>>

UpdateZoneColor(zone, color) ==
  /\ Commit(update_zone_color(Self, zone, color))
  /\ UNCHANGED <<stray_ticks, panel, window, web, profile_manager>>

UpdateBrightness(brightness) ==
  /\ Commit(update_brightness(Self, brightness))
  /\ UNCHANGED <<stray_ticks, panel, window, web, profile_manager>>

UpdateMode(mode) ==
  /\ Commit(update_mode(Self, mode))
  /\ UNCHANGED <<stray_ticks, panel, window, web, profile_manager>>

UpdateSpeed(speed) ==
  /\ Commit(update_speed(Self, speed))
  /\ UNCHANGED <<stray_ticks, panel, window, web, profile_manager>>

UpdateDirection(direction) ==
  /\ Commit(update_direction(Self, direction))
  /\ UNCHANGED <<stray_ticks, panel, window, web, profile_manager>>

UpdateFromState(state) ==
  /\ Commit(update_from_state(Self, state))
  /\ UNCHANGED <<stray_ticks, panel, window, web, profile_manager>>

\* The armed timer times out and Qt calls update_animation; a stopped QTimer
\* delivers no timeout.
TimerTick(bound) ==
  /\ timer_active
  /\ animation_frame < bound
  /\ animation_frame + 1 \in TableFrames
  /\ Commit(update_animation(Self))
  /\ UNCHANGED <<stray_ticks, panel, window, web, profile_manager>>

Tick == TimerTick(MaxFrame)

\* update_animation called although the timer is not armed (a tick delivered
\* in error, or a direct call of the slot).
StrayTick ==
  /\ ~timer_active
  /\ stray_ticks < MaxStray
  /\ animation_frame < MaxFrame
  /\ animation_frame + 1 \in TableFrames
  /\ Commit(update_animation(Self))
  /\ stray_ticks' = stray_ticks + 1
  /\ UNCHANGED <<panel, window, web, profile_manager>>

SetColor == \E color \in ColorArgs : UpdateColor(color)
SetZoneColor == \E zone \in ZoneArgs, color \in ColorArgs : UpdateZoneColor(zone, color)
SetBrightness == \E brightness \in BrightnessArgs : UpdateBrightness(brightness)
SetMode == \E mode \in ModeArgs : UpdateMode(mode)
SetSpeed == \E speed \in SpeedArgs : UpdateSpeed(speed)
SetDirection == \E direction \in DirectionArgs : UpdateDirection(direction)
LoadState == \E state \in StateArgs : UpdateFromState(state)

Next ==
  \/ SetColor
  \/ SetZoneColor
  \/ SetBrightness
  \/ SetMode
  \/ SetSpeed
  \/ SetDirection
  \/ LoadState
  \/ Tick

\* The widget driven by its methods and its timer.
Spec == Init /\ [][Next]_vars

NextStray == Next \/ StrayTick

\* The same, with update_animation also delivered while the timer is stopped.
SpecStray == Init /\ [][NextStray]_vars

(***************************************************************************)
(* The main window: the user works the controls, the colour picker, the    *)
(* profile list, the Exit action and the tray icon.  Controls can be       *)
(* worked only while the window is shown; once a close event is accepted   *)
(* the application ends.                                                   *)
(***************************************************************************)
preview_vars == <<animation_frame, current_mode, current_brightness,
                  current_speed, current_direction, zone_colors, timer_active,
                  timer_interval, keys>>

Usable == window.visible /\ ~window.closed

\* The signals reach their slots only if connect_signals connected them.
Slot(w_after) == IF window.connected THEN Commit(w_after) ELSE UNCHANGED preview_vars

ClickMode ==
  /\ Usable
  /\ \E mode_id \in ModeArgs :
       /\ panel' = on_mode_selected(Begin(panel), mode_id)
       /\ Slot(apply_mode(Self, mode_id))
  /\ UNCHANGED <<stray_ticks, window, web, profile_manager>>

MoveBrightness ==
  /\ Usable
  /\ \E value \in ControlBrightnessArgs :
       /\ value # panel.brightness_slider
       /\ panel' = brightness_slider_setValue(Begin(panel), value)
       /\ Slot(apply_brightness(Self, value))
  /\ UNCHANGED <<stray_ticks, window, web, profile_manager>>

MoveSpeed ==
  /\ Usable
  /\ \E value \in ControlSpeedArgs :
       /\ value # panel.speed_slider
       /\ panel' = speed_slider_setValue(Begin(panel), value)
       /\ Slot(apply_speed(Self, value))
  /\ UNCHANGED <<stray_ticks, window, web, profile_manager>>

\* direction_changed and zone_changed of the control panels have no slot.
ClickDirection ==
  /\ Usable
  /\ \E direction \in DirectionArgs : panel' = on_direction_changed(Begin(panel), direction)
  /\ UNCHANGED <<preview_vars, stray_ticks, window, web, profile_manager>>

ClickZone ==
  /\ Usable
  /\ \E zone_id \in ZoneButtons : panel' = on_zone_changed(Begin(panel), zone_id)
  /\ UNCHANGED <<preview_vars, stray_ticks, window, web, profile_manager>>

PickColor ==
  /\ Usable
  /\ \E color \in ColorArgs : Slot(color_changed(Self, color))
  /\ UNCHANGED <<stray_ticks, panel, window, web, profile_manager>>

\* MainWindow.load_profile succeeding, then update_ui_from_controller.
LoadProfile ==
  /\ Usable
  /\ window.connected
  /\ \E state \in ProfileStates :
       /\ panel' = panel_update_from_state(Begin(panel), state)
       /\ Commit(update_from_state(Self, state))
  /\ UNCHANGED <<stray_ticks, window, web, profile_manager>>

\* File > Exit (Ctrl+Q): triggered is connected to self.close.
TriggerExit ==
  /\ Usable
  /\ window' = closeEvent(window)
  /\ UNCHANGED <<preview_vars, stray_ticks, panel, web, profile_manager>>

\* The tray menu: Show, Hide, Quit (self.close), and a double click.
TrayShow ==
  /\ window.tray_visible /\ ~window.closed
  /\ window' = [window EXCEPT !.visible = TRUE]
  /\ UNCHANGED <<preview_vars, stray_ticks, panel, web, profile_manager>>

TrayHide ==
  /\ window.tray_visible /\ ~window.closed
  /\ window' = [window EXCEPT !.visible = FALSE]
  /\ UNCHANGED <<preview_vars, stray_ticks, panel, web, profile_manager>>

TrayQuit ==
  /\ window.tray_visible /\ ~window.closed
  /\ window' = closeEvent(window)
  /\ UNCHANGED <<preview_vars, stray_ticks, panel, web, profile_manager>>

TrayDoubleClick ==
  /\ window.tray_visible /\ ~window.closed
  /\ window' = tray_activated(window)
  /\ UNCHANGED <<preview_vars, stray_ticks, panel, web, profile_manager>>

WindowTick == ~window.closed /\ Tick

WindowInit ==
  /\ Holds(Constructed)
  /\ stray_ticks = 0
  /\ panel = PanelConstructed
  /\ web = WebIdle
  /\ profile_manager = ProfilesConstructed
  /\ \E facer_found \in BOOLEAN, tray_available \in BOOLEAN,
        no_tray \in BOOLEAN, minimized \in BOOLEAN :
       window = MainWindowStarted(facer_found, tray_available, no_tray, minimized)

WindowNext ==
  \/ ClickMode
  \/ MoveBrightness
  \/ MoveSpeed
  \/ ClickDirection
  \/ ClickZone
  \/ PickColor
  \/ LoadProfile
  \/ TriggerExit
  \/ TrayShow
  \/ TrayHide
  \/ TrayQuit
  \/ TrayDoubleClick
  \/ WindowTick

SpecWindow == WindowInit /\ [][WindowNext]_vars

(***************************************************************************)
(* The web interface: POST /api/set_mode requests handled one at a time.   *)
(***************************************************************************)
HandleSetMode ==
  /\ \E body \in WebBodies, outcome \in ControllerOutcomes :
       web' = handle_set_mode(web, body, outcome)
  /\ UNCHANGED <<preview_vars, stray_ticks, panel, window, profile_manager>>

HandleGet ==
  /\ \E path \in GetPaths, outcome \in ControllerOutcomes, found \in BOOLEAN :
       web' = do_GET(web, path, outcome, found)
  /\ UNCHANGED <<preview_vars, stray_ticks, panel, window, profile_manager>>

WebNext == HandleSetMode \/ HandleGet

SpecWeb == Init /\ [][WebNext]_vars

(***************************************************************************)
(* The profile list: Save Profile dialogs, one after another.  The slot of  *)
(* profile_saved, MainWindow.save_profile, has the controller write the    *)
(* file; whether a file exists is an input of the next dialog.             *)
(***************************************************************************)
SaveNewProfile ==
  /\ \E name \in DialogNames, ok \in BOOLEAN, exists \in BOOLEAN, reply \in {"yes", "no"} :
       profile_manager' = save_new_profile(profile_manager, name, ok, exists, reply)
  /\ UNCHANGED <<preview_vars, stray_ticks, panel, window, web>>

SpecProfiles == Init /\ [][SaveNewProfile]_vars

(***************************************************************************)
(* The control panels alone: the user works the mode buttons, the          *)
(* brightness slider, spinbox, quick buttons and power button and the      *)
(* direction buttons, and the program calls set_brightness, set_direction  *)
(* and update_from_state.                                                  *)
(***************************************************************************)
Others == <<preview_vars, stray_ticks, window, web, profile_manager>>

ClickModeButton ==
  /\ \E mode_id \in ModeArgs : panel' = on_mode_selected(Begin(panel), mode_id)
  /\ UNCHANGED Others

MoveSlider ==
  /\ \E value \in SliderArgs :
       /\ value # panel.brightness_slider
       /\ panel' = brightness_slider_setValue(Begin(panel), value)
  /\ UNCHANGED Others

EditSpinbox ==
  /\ \E value \in SpinboxArgs :
       /\ value # panel.brightness_spinbox
       /\ panel' = brightness_spinbox_setValue(Begin(panel), value)
  /\ UNCHANGED Others

\* A quick-brightness button: clicked is connected to set_brightness(b).
ClickQuickBrightness ==
  /\ \E b \in QuickBrightness : panel' = set_brightness(Begin(panel), b)
  /\ UNCHANGED Others

\* A click on the checkable power button changes its checked state.
TogglePower ==
  /\ panel' = power_button_setChecked(Begin(panel), ~panel.power_button)
  /\ UNCHANGED Others

CallSetBrightness ==
  /\ \E brightness \in SetBrightnessArgs : panel' = set_brightness(Begin(panel), brightness)
  /\ UNCHANGED Others

ClickDirectionButton ==
  /\ \E direction \in DirectionArgs : panel' = on_direction_changed(Begin(panel), direction)
  /\ UNCHANGED Others

CallSetDirection ==
  /\ \E direction \in DirectionArgs : panel' = set_direction(Begin(panel), direction)
  /\ UNCHANGED Others

CallUpdateFromState ==
  /\ \E state \in PanelStateArgs : panel' = panel_update_from_state(Begin(panel), state)
  /\ UNCHANGED Others

ControlsNext ==
  \/ ClickModeButton
  \/ MoveSlider
  \/ EditSpinbox
  \/ ClickQuickBrightness
  \/ TogglePower
  \/ CallSetBrightness
  \/ ClickDirectionButton
  \/ CallSetDirection
  \/ CallUpdateFromState

SpecControls == Init /\ [][ControlsNext]_vars

(***************************************************************************)
(* The rendering as a function of the state: every mode, every brightness, *)
(* either direction, a range of frames.  The widget starts as update_mode  *)
(* leaves it (keys refreshed, timer armed if the mode animates), and the   *)
(* timer ticks.                                                            *)
(***************************************************************************)
RenderInit ==
  /\ \E mode \in ModeArgs, brightness \in AllBrightness,
        direction \in DirectionArgs, colors \in RenderColors,
        frame \in 0 .. MaxRenderFrame :
       Holds(update_mode([Constructed EXCEPT !.animation_frame = frame,
                                             !.current_brightness = brightness,
                                             !.current_direction = direction,
                                             !.zone_colors = colors],
                         mode))
  /\ stray_ticks = 0
  /\ HostInit

RenderTick == TimerTick(MaxRenderFrame + 1)

SpecRender == RenderInit /\ [][RenderTick]_vars

(***************************************************************************)
(* Properties.                                                             *)
(***************************************************************************)

\* C1: once an operation has returned, the animation timer is armed if and
\* only if current_mode is one of the animated modes 1..5; in Static mode (0)
\* it is not armed.
TimerArmedIffAnimated == timer_active <=> current_mode \in 1 .. 5

\* Static mode entered after the animation has run: the timer is stopped.
TimerStoppedInStatic ==
  /\ current_mode = 0
  /\ ~timer_active
  /\ animation_frame > 0

\* C2: whenever the timer is armed, its interval is the speed-derived
\* max(50, 250 - current_speed * 20) ms.
ArmedIntervalSpeedDerived ==
  timer_active => timer_interval = Max(50, 250 - current_speed * 20)

SpeedChangeTouchesOnlySpeed ==
  [][\A s \in SpeedArgs :
       (timer_active /\ UpdateSpeed(s)) =>
         /\ timer_active'
         /\ current_speed' = s
         /\ UNCHANGED <<current_mode, animation_frame, current_brightness,
                        current_direction, zone_colors, keys>>]_vars

\* The speed was lowered to 1 while the Wave animation was running.
SlowedWhileAnimating ==
  /\ timer_active
  /\ current_mode = 3
  /\ animation_frame > 0
  /\ current_speed = 1
  /\ timer_interval = 230

\* C5: the frame counter never decreases and is never reset; it advances by
\* exactly 1 per timer tick, and only while the mode is one of Breathing,
\* Neon, Wave, Shifting, Zoom: no operation advances it in Static mode.
FrameAdvancesOnlyAnimated ==
  [][/\ animation_frame' >= animation_frame
     /\ (Tick => animation_frame' = animation_frame + 1)
     /\ (animation_frame' # animation_frame =>
           /\ animation_frame' = animation_frame + 1
           /\ current_mode \in {1, 2, 3, 4, 5})]_vars

\* The counter has advanced twice and is frozen in Static mode.
FrameFrozenInStatic ==
  /\ current_mode = 0
  /\ animation_frame = 2
  /\ ~timer_active
  /\ current_brightness = 50

\* C6: a switch from an animated mode to Static leaves the timer stopped, and
\* a call of update_animation in Static mode, delivered by the timer or not,
\* leaves the colour and the brightness every key displays unchanged.
StaticTicksChangeNothing ==
  [][/\ ((current_mode # 0 /\ current_mode' = 0) => ~timer_active')
     /\ ((current_mode = 0 /\ animation_frame' # animation_frame) =>
           \A i \in KeyIds :
             /\ StyleColor(keys'[i]) = StyleColor(keys[i])
             /\ keys'[i].brightness = keys[i].brightness
             /\ keys'[i].current_color = keys[i].current_color)]_vars

\* Two ticks were delivered in Static mode after the timer was stopped.
TicksDeliveredInStatic ==
  /\ current_mode = 0
  /\ ~timer_active
  /\ stray_ticks >= 2

\* C7: in Static mode every key of zone z is handed zone_colors[z] and
\* current_brightness, whatever the frame counter is, so the output does not
\* depend on the frame.
StaticOutputFrameInvariant ==
  current_mode = 0 =>
    \A i \in KeyIds :
      /\ keys[i].current_color = zone_colors[KeyZone[i]]
      /\ keys[i].brightness = current_brightness
      /\ StyleColor(keys[i]) = AdjustedColor(zone_colors[KeyZone[i]], current_brightness)

\* Static mode with two zone colours, dimmed, after frames have passed both
\* by the timer and by a stray tick.
StaticTwoColoursLaterFrame ==
  /\ current_mode = 0
  /\ animation_frame = 2
  /\ stray_ticks = 1
  /\ zone_colors[1] # zone_colors[4]
  /\ current_brightness = 50

\* C8: when current_brightness is 0 every key renders the dark gray
\* (30,30,30), not black, in every mode, at every frame, for every colour.
OffKeysRenderGray ==
  current_brightness = 0 =>
    \A i \in KeyIds :
      /\ StyleColor(keys[i]) = <<30, 30, 30>>
      /\ StyleColor(keys[i]) # <<0, 0, 0>>

\* Neon has ticked at brightness 0 over a black base colour.
NeonTickedWhileOff ==
  /\ current_brightness = 0
  /\ current_mode = 2
  /\ animation_frame > 0
  /\ zone_colors[1] = Black
  /\ keys[0].current_color = HsvToRgb(NeonHue(animation_frame, 0))
  /\ keys[0].brightness = 0

\* C9: for every mode, zone, frame, brightness in 0..100 and base colour with
\* channels in 0..255, the brightness handed to each key lies in 0..100 and
\* does not exceed current_brightness, and every channel of the colour handed
\* to the key and of the colour it displays lies in 0..255.
OutputInRange ==
  \A key \in {keys[i] : i \in KeyIds} :
    /\ key.brightness \in 0 .. 100
    /\ key.brightness <= current_brightness
    /\ \A c \in 1 .. 3 :
         /\ key.current_color[c] \in 0 .. 255
         /\ StyleColor(key)[c] \in 0 .. 255

\* Zoom has ticked over a white zone at brightness 77: the key got a scaled
\* colour and a scaled brightness.
ZoomScaledWhite ==
  /\ current_mode = 5
  /\ current_brightness = 77
  /\ zone_colors[1] = White
  /\ keys[0].brightness \in 1 .. 76
  /\ keys[0].current_color[1] \in 204 .. 254

\* A colour of full saturation and value, as animate_wave and animate_neon
\* hand to the keys; no base colour of SpecRender is one.
IsHueColor(color) ==
  /\ \E c \in 1 .. 3 : color[c] = 255
  /\ \E c \in 1 .. 3 : color[c] = 0

\* C10: in Wave mode, at the same frame and 0-based zone z, wave_pos is
\* (frame - z*10) mod 100 for RightToLeft (1) and (frame + z*10) mod 100
\* otherwise; both lie in 0..99 (also when frame < z*10), they coincide for
\* z = 0 and differ for z in 1..3; the keys animate_wave has set carry the hue
\* of the position of their zone and direction.
WavePositionsMirrored ==
  /\ \A z \in 0 .. 3 :
       LET rl == WavePos(animation_frame, z, 1)
           lr == WavePos(animation_frame, z, 2)
       IN  /\ rl \in 0 .. 99
           /\ lr \in 0 .. 99
           /\ \E q \in -1 .. animation_frame : rl + 100 * q = animation_frame - z * 10
           /\ \E q \in 0 .. animation_frame + 1 : lr + 100 * q = animation_frame + z * 10
           /\ (z = 0 => rl = lr)
           /\ (z \in 1 .. 3 => rl # lr)
           /\ (current_mode = 3 /\ IsHueColor(keys[0].current_color)) =>
                LET hue_color ==
                      HsvToRgb(WaveHue(IF current_direction = 1 THEN rl ELSE lr))
                IN  \A i \in KeyIds :
                      KeyZone[i] = z + 1 => keys[i].current_color = hue_color

\* Wave has ticked to frame 5, right to left: the key of the fourth zone
\* (5 < 3*10) is at position 75.
WaveWrappedBelowZero ==
  /\ current_mode = 3
  /\ current_direction = 1
  /\ animation_frame = 5
  /\ current_brightness = 100
  /\ keys[35].current_color = HsvToRgb(270)
  /\ keys[0].current_color = HsvToRgb(18)

\* ---------------------------------------------------------------------
\* C11: In Breathing mode with brightness 100 and all four zone colours
\* (131,184,26), the output shown while the frame counter reads 0 is
\* brightness 50 with colour (131,184,26) on every key; and Breathing never
\* changes the colour handed to a key.
AllBrandGreen == [z \in 1 .. NumZones |-> BrandGreen]

BreathingFrameZeroHalf ==
  current_mode = 1 =>
    /\ \A key \in {keys[i] : i \in KeyIds} : key.current_color \in {zone_colors[z] : z \in 1 .. NumZones}
    /\ (current_brightness = 100 /\ zone_colors = AllBrandGreen /\ animation_frame = 0) =>
         \A key \in {keys[i] : i \in KeyIds} :
           key.current_color = BrandGreen /\ key.brightness = 50

\* C11 (amended): the breathing factor at frame 0 is one half (50 of 100),
\* but update_animation advances the counter before animate_breathing reads
\* it, so a tick in Breathing mode hands every key its zone's colour
\* unchanged and the brightness scaled by the factor of the NEW frame:
\* with brightness 100 and all zones (131,184,26) the first tick leaves the
\* counter at 1 and every key at brightness 54, colour (131,184,26).
BreathingTickOutput ==
  [][(current_mode = 1 /\ animation_frame' = animation_frame + 1) =>
       /\ ScaleBrightness(100, SinFactor(0)) = 50
       /\ \A i \in KeyIds :
            /\ keys'[i].current_color = zone_colors[KeyZone[i]]
            /\ keys'[i].brightness =
                 ScaleBrightness(current_brightness, SinFactor(animation_frame'))
       /\ (current_brightness = 100 /\ zone_colors = AllBrandGreen /\ animation_frame = 0) =>
            \A i \in KeyIds : keys'[i] = set_color(BrandGreen, 54)]_vars

BreathingFirstTickShown ==
  /\ current_mode = 1
  /\ current_brightness = 100
  /\ zone_colors = AllBrandGreen
  /\ animation_frame = 1
  /\ \A i \in KeyIds : keys[i] = set_color(BrandGreen, 54)

\* ---------------------------------------------------------------------
\* C12: In Zoom mode each displayed channel is the base channel scaled by
\* 0.8 + 0.2 * zoom_factor and capped at 255: it exceeds neither 255 nor the
\* base channel, and for base channel 255 at zoom_factor 1 (factor 1.0,
\* ColorScale in fixed point) the result is exactly 255.
ZoomChannelBounded ==
  current_mode = 5 =>
    /\ ZoomScale(255, ColorScale) = 255
    /\ \A i \in KeyIds :
         LET shown == keys[i].current_color
             base == zone_colors[KeyZone[i]]
         IN  \/ shown = base
             \/ /\ shown = <<ZoomChannel(base[1], animation_frame),
                             ZoomChannel(base[2], animation_frame),
                             ZoomChannel(base[3], animation_frame)>>
                /\ \A c \in 1 .. 3 : shown[c] <= 255 /\ shown[c] <= base[c]

\* Frame 16 is the integer frame nearest the crest (zoom_factor 0.99979):
\* a 255 channel shows as 254 and the amber zone as (199, 99, 28).
ZoomNearCrest ==
  /\ current_mode = 5
  /\ animation_frame = 16
  /\ zone_colors = <<White, Black, BrandGreen, Amber>>
  /\ keys[0].current_color = <<254, 254, 254>>
  /\ keys[3 * KeysPerZone].current_color = <<199, 99, 28>>

DefaultState ==
  /\ current_mode = 3
  /\ current_brightness = 100
  /\ current_speed = 5
  /\ animation_frame = 0
  /\ zone_colors = [z \in 1 .. NumZones |-> <<50, 255, 50>>]
  /\ \A i \in KeyIds : keys[i] = set_color(<<50, 255, 50>>, 100)

IrrelevantParametersIgnored ==
  [][/\ \A d \in DirectionArgs :
          (current_mode # 3 /\ UpdateDirection(d)) =>
            /\ current_direction' = d
            /\ UNCHANGED <<keys, animation_frame, timer_active>>
     /\ \A s \in SpeedArgs :
          (current_mode = 0 /\ UpdateSpeed(s)) =>
            /\ current_speed' = s
            /\ UNCHANGED <<keys, animation_frame, timer_active, timer_interval>>]_vars

\* Static mode entered after two frames at half brightness, the timer
\* stopped, with the direction and the speed both moved off their defaults.
DirectionAndSpeedSetInStatic ==
  /\ current_mode = 0
  /\ ~timer_active
  /\ animation_frame = 2
  /\ current_brightness = 50
  /\ current_direction = 2
  /\ current_speed = 9

\* ---------------------------------------------------------------------
\* C19: in Shifting mode every key of every zone is handed the same colour
\* at each frame, the per-channel blend of zone_colors[0] (the first zone's
\* base colour) with the frame's hue colour, at current_brightness; the base
\* colours of zones 2..4 do not enter the output.
ShiftingUsesFirstZone ==
  [][(current_mode = 4 /\ animation_frame' = animation_frame + 1) =>
       LET frame == animation_frame'
           hue_color == HsvToRgb((frame * 2) % 360)
           first == zone_colors[1]
           blend == <<MixChannel(frame, first[1], hue_color[1]),
                      MixChannel(frame, first[2], hue_color[2]),
                      MixChannel(frame, first[3], hue_color[3])>>
       IN  \A i \in KeyIds :
             /\ keys'[i] = keys'[0]
             /\ keys'[i].current_color = blend
             /\ keys'[i].brightness = current_brightness]_vars

\* Four different zone colours, yet after a Shifting tick all 36 keys hold
\* one colour, which is none of the four.
ShiftingFourColoursOneOutput ==
  /\ current_mode = 4
  /\ zone_colors = <<White, Black, BrandGreen, Amber>>
  /\ animation_frame = 20
  /\ \A i \in KeyIds : keys[i] = keys[0]
  /\ keys[0].current_color \notin {White, Black, BrandGreen, Amber}

\* ---------------------------------------------------------------------
\* C20: update_color(c) changes the base colour only in the modes that take
\* a colour: in mode 0, 1, 4 or 5 all four zone colours become c (and no
\* field but the zone colours and the keys changes); in Neon (2) or Wave (3)
\* the zone colours, the keys and every other field stay as they were.
ColorOnlyInColorModes ==
  [][\A c \in ColorArgs :
       UpdateColor(c) =>
         IF current_mode \in {0, 1, 4, 5}
           THEN /\ zone_colors' = [z \in 1 .. NumZones |-> c]
                /\ UNCHANGED <<current_mode, animation_frame, current_brightness,
                               current_speed, current_direction, timer_active,
                               timer_interval>>
           ELSE UNCHANGED vars]_vars

\* Zoom mode, running, with all four zones turned black.
ZoomTurnedBlack ==
  /\ current_mode = 5
  /\ timer_active
  /\ animation_frame = 1
  /\ zone_colors = [z \in 1 .. NumZones |-> Black]

\* ---------------------------------------------------------------------
\* C14: whenever the control surface reports a change (a signal of the
\* control panels or of the colour picker in a MainWindow whose signals are
\* connected), the preview is updated: once the handlers have returned, the
\* preview's mode, brightness, speed and direction are the values last
\* selected in the controls.
PreviewFollowsControls ==
  window.connected =>
    /\ current_mode = panel.selector_mode
    /\ current_brightness = panel.current_brightness
    /\ current_speed = panel.current_speed
    /\ current_direction = panel.current_direction

\* ---------------------------------------------------------------------
\* C17: triggering the Exit action (Ctrl+Q) exits the application: from any
\* state of the main window, the close request it issues is accepted and the
\* window is closed, not merely hidden.
ExitClosesWindow ==
  [][TriggerExit => (window'.close_event = "accepted" /\ window'.closed)]_vars

\* ---------------------------------------------------------------------
\* C18: control visibility is a fixed function of the mode selected in the
\* control panel: the speed control is visible iff the mode is in 1..5, the
\* direction control iff it is 3 or 4 (Wave, Shifting), the zone control iff
\* it is 0 (Static).
VisibilityByMode ==
  LET mode == panel.selector_mode
  IN  /\ panel.speed_visible <=> mode \in 1 .. 5
      /\ panel.direction_visible <=> mode \in {3, 4}
      /\ panel.zone_visible <=> mode = 0

\* Static was selected by its button (no profile leaves brightness 100 in
\* Static mode): the zone control is the only optional control shown.
StaticSelectedZoneShown ==
  /\ panel.selector_mode = 0
  /\ panel.state_mode = 0
  /\ panel.current_brightness = 100
  /\ panel.zone_visible
  /\ ~panel.speed_visible
  /\ ~panel.direction_visible

\* ---------------------------------------------------------------------
\* C15: an apply command updates only the fields present in its payload:
\* for a well-formed request body, handle_set_mode calls set_rgb_mode with
\* the body's mode (3 if absent) and exactly those of brightness, speed,
\* color, direction and zone that the body has, each with the body's value
\* (the colour as a tuple), never a value for an absent one; and it reports
\* the boolean the controller returned as {'success': ...}.
ApplyPassesPresentFields ==
  LET data == web.request.data
      well_formed == /\ web.request.kind = "json"
                     /\ "color" \in DOMAIN data => data["color"].kind = "array"
  IN  /\ well_formed =>
           /\ web.call.made
           /\ web.call.mode = (IF "mode" \in DOMAIN data THEN data["mode"] ELSE 3)
           /\ DOMAIN web.call.kwargs = (DOMAIN data) \cap WebKeys
           /\ \A k \in DOMAIN web.call.kwargs :
                web.call.kwargs[k] = (IF k = "color" THEN data[k].items ELSE data[k])
      /\ (web.call.made /\ web.call.result \in {"true", "false"}) =>
           web.response = [status |-> 200, key |-> "success",
                           success |-> (web.call.result = "true")]
      /\ (web.request.kind # "none" /\ ~well_formed) => ~web.call.made

\* A request with only mode and speed: speed is the one keyword passed, and
\* the controller's False comes back as success: false.
OnlySpeedPassed ==
  /\ web.request.kind = "json"
  /\ DOMAIN web.request.data = {"mode", "speed"}
  /\ web.call.made
  /\ web.call.mode = 4
  /\ DOMAIN web.call.kwargs = {"speed"}
  /\ web.call.kwargs["speed"] = 9
  /\ web.response = [status |-> 200, key |-> "success", success |-> FALSE]

\* ---------------------------------------------------------------------
\* C21: save_new_profile emits profile_saved at most once per call, and
\* only with a non-empty name made solely of alphanumerics, space, '-' and
\* '_'; it emits nothing when the dialog is cancelled, when the cleaned name
\* is empty, or when a profile of that name exists and the user does not
\* confirm the overwrite.
SavedNameIsClean ==
  LET saved == SelectSeq(profile_manager.emitted,
                         LAMBDA e : e.signal = "profile_saved")
      typed == profile_manager.dialog
  IN  /\ Len(saved) <= 1
      /\ \A n \in 1 .. Len(saved) :
           /\ saved[n].name # <<>>
           /\ \A k \in 1 .. Len(saved[n].name) :
                saved[n].name[k] \in {"a", "7", " ", "-", "_"}
           /\ typed.ok
      /\ ~typed.ok => saved = <<>>
      /\ profile_manager.warned => saved = <<>>
      /\ (profile_manager.existed /\ profile_manager.reply # "yes") => saved = <<>>

\* "!a_" was typed and accepted, and overwriting was confirmed: the name
\* saved is "a_".
CleanedNameSaved ==
  /\ profile_manager.dialog = [name |-> <<"!", "a", "_">>, ok |-> TRUE]
  /\ profile_manager.existed
  /\ profile_manager.reply = "yes"
  /\ profile_manager.emitted =
       <<[signal |-> "profile_saved", name |-> <<"a", "_">>]>>

\* ---------------------------------------------------------------------
\* C22: refreshing the controls from the controller state (load_profile
\* succeeding, then update_ui_from_controller) only reads the controller: no
\* set_rgb_mode call is made as a consequence of the controls being set by
\* the program.
RefreshIssuesNoCommand ==
  [][LoadProfile => set_rgb_mode_calls(window', panel') = <<>>]_vars

\* ---------------------------------------------------------------------
\* C23: one change of the brightness slider to a new value emits
\* brightness_changed exactly once, so exactly one set_rgb_mode call (from
\* apply_brightness) reaches the controller for the change when the signals
\* are connected.
OneCommandPerBrightnessChange ==
  [][MoveBrightness =>
       /\ Len(SelectSeq(panel'.emitted, LAMBDA e : e.signal = "brightness_changed")) = 1
       /\ window.connected => Len(set_rgb_mode_calls(window', panel')) = 1]_vars

\* ---------------------------------------------------------------------
\* C24: after any sequence of slider moves, spinbox edits, quick-brightness
\* clicks, power-button toggles and set_brightness calls with values in
\* 0..100, once the handlers have returned the power button is checked iff
\* current_brightness > 0, and the slider, the spinbox and
\* current_brightness hold the same value; toggling the power off sets the
\* brightness to 0 and toggling it on (from 0) sets it to 100.
BrightnessControlsAgree ==
  /\ [](/\ panel.power_button <=> panel.current_brightness > 0
        /\ panel.brightness_slider = panel.current_brightness
        /\ panel.brightness_spinbox = panel.current_brightness)
  /\ [][TogglePower =>
          panel'.current_brightness = (IF panel.power_button THEN 0 ELSE 100)]_vars

\* The power is off: the button is unchecked, every control shows 0 and the
\* change to 0 was signalled.
PoweredOff ==
  /\ ~panel.power_button
  /\ panel.current_brightness = 0
  /\ panel.brightness_slider = 0
  /\ panel.brightness_spinbox = 0
  /\ panel.emitted # <<>>
  /\ \A i \in 1 .. Len(panel.emitted) :
       panel.emitted[i] = [signal |-> "brightness_changed", value |-> 0]

\* ---------------------------------------------------------------------
\* C25: current_state['mode'] of the control panels, which drives the
\* visibility of the controls, always equals mode_selector.current_mode,
\* after any sequence of mode clicks and update_from_state calls, including
\* states without a 'mode' key or with a mode outside 0..5.
StateModeIsSelectorMode == panel.state_mode = panel.selector_mode

\* ---------------------------------------------------------------------
\* C26: DirectionControl.current_direction always equals the id of the
\* checked direction button (1 = right to left, 2 = left to right), in every
\* reachable state, the one right after construction included.
DirectionIsCheckedButton == panel.current_direction = checkedId(panel)

\* ---------------------------------------------------------------------
\* C27: every GET request handled by do_GET ends with an HTTP response being
\* sent, the paths under /api/ other than /api/status, /api/modes and
\* /api/profiles included; no path makes the handler raise instead of
\* answering.
EveryGetAnswered ==
  web.request.kind = "GET" => web.response.status \in {200, 404, 500}

\* ---------------------------------------------------------------------
\* C28: update_from_state overwrites mode, brightness, speed and direction
\* with the defaults 3, 100, 5 and 1, and uses the colour (50,255,50), for
\* every key the state lacks, whatever the preview holds when it is called
\* (any state the preview can reach); in Static mode it changes the colour
\* of the state's zone only (no zone if the zone is outside 1..4); in
\* Breath, Shifting and Zoom every zone gets the colour, in Neon and Wave
\* none.
MissingKeysTakeDefaults ==
  \A state \in StateArgs :
    LET after == update_from_state(Self, state)
        given(key) == key \in DOMAIN state
        color == IF given("color") THEN state.color ELSE <<50, 255, 50>>
        zone == IF given("zone") THEN state.zone ELSE 1
    IN  /\ after.current_mode = (IF given("mode") THEN state.mode ELSE 3)
        /\ after.current_brightness = (IF given("brightness") THEN state.brightness ELSE 100)
        /\ after.current_speed = (IF given("speed") THEN state.speed ELSE 5)
        /\ after.current_direction = (IF given("direction") THEN state.direction ELSE 1)
        /\ \A z \in 1 .. 4 :
             after.zone_colors[z] =
               IF after.current_mode = 0
               THEN (IF z = zone THEN color ELSE zone_colors[z])
               ELSE IF after.current_mode \in {1, 4, 5} THEN color
               ELSE zone_colors[z]

\* A Static state for zone 2 was loaded into the fresh preview: zone 2 alone
\* turned black.
StaticStateLoaded ==
  /\ current_mode = 0
  /\ current_brightness = 50
  /\ current_speed = 1
  /\ current_direction = 2
  /\ zone_colors = <<AcerGreen, Black, AcerGreen, AcerGreen>>

\* ---------------------------------------------------------------------
\* C29: a tick in Neon mode hands the key with index i (0..35, the preview
\* having 36 keys) the colour of hue (frame*2 + i*10) mod 360 at full
\* saturation and value, frame being the counter after the tick; the 36
\* hues lie in 0..359 and are pairwise distinct, and the output is the same
\* 180 frames later.
NeonRainbow ==
  [][(current_mode = 2 /\ animation_frame' = animation_frame + 1) =>
       LET frame == animation_frame'
           hue(i) == (frame * 2 + i * 10) % 360
           later == animate_neon([Self EXCEPT !.animation_frame = frame + 180])
       IN  /\ KeyIds = 0 .. 35
           /\ \A i \in KeyIds :
                LET color == keys'[i].current_color
                IN  /\ keys'[i] = set_color(HsvToRgb(hue(i)), current_brightness)
                    /\ Max(color[1], Max(color[2], color[3])) = 255
                    /\ Min(color[1], Min(color[2], color[3])) = 0
                    /\ hue(i) \in 0 .. 359
           /\ Cardinality({hue(i) : i \in KeyIds}) = 36
           /\ later.keys = keys']_vars

\* Neon after its first tick at full brightness: key 0 has hue 2, key 35
\* hue 352.
NeonFirstTickShown ==
  /\ current_mode = 2
  /\ animation_frame = 1
  /\ current_brightness = 100
  /\ keys[0] = set_color(HsvToRgb(2), 100)
  /\ keys[35] = set_color(HsvToRgb(352), 100)

====
